---------------------------- MODULE Spec2Model ----------------------------
(***************************************************************************)
(* A model of helper.py of GeorgiaLDUClosure: the report functions         *)
(* count_stats, proportion_stats and two_by_two over a pandas DataFrame    *)
(* grouped by its 'Closed 2012-2016' column, and plot_medians.             *)
(*                                                                         *)
(* Numbers.  A cell, a statistic or a p-value is a pair <<n, d>>:          *)
(*   <<n, d>> with d > 0 is the number n/d, kept in lowest terms;          *)
(*   <<0, 0>> is NaN (pandas' missing value, and the result of 0/0);       *)
(*   <<1, 0>> is +inf and <<-1, 0>> is -inf (a non-zero value / 0).        *)
(* Arithmetic is exact: the rounding of IEEE doubles is not modelled.      *)
(*                                                                         *)
(* Output.  A printed line is the tag of its print statement with the      *)
(* values handed to str.format, in the order of the format string; the     *)
(* rendering of a value as decimal digits is not modelled.                 *)
(***************************************************************************)
EXTENDS Integers, Sequences, FiniteSets, TLC

VARIABLES
    frames,   \* the DataFrame objects: "df" is the caller's, "prop_df" the local of proportion_stats
    build,    \* what the installed scipy does with an empty sample
    call,     \* the last report call: its function and arguments
    out,      \* the lines that call printed
    err,      \* the exception that call raised, or "none"
    fig,      \* the figure plot_medians built, and the file it saved
    pending   \* the arguments of the plot_medians call the script is about to make

vars == <<frames, build, call, out, err, fig, pending>>

---------------------------------------------------------------------------
(* Bounds of the model *)

MaxRows == 3        \* most records in the caller's dataset
MaxVal == 6         \* largest measure value in the two-sample datasets
MaxLabels == 2      \* most measures handed to plot_medians

---------------------------------------------------------------------------
(* Numbers *)

NaN == <<0, 0>>
PosInf == <<1, 0>>
NegInf == <<-1, 0>>
Num(v) == <<v, 1>>

Abs(n) == IF n < 0 THEN -n ELSE n

RECURSIVE GCD(_, _)
GCD(a, b) == IF b = 0 THEN a ELSE GCD(b, a % b)

\* n/d for d > 0, in lowest terms
Frac(n, d) == LET g == GCD(Abs(n), d) IN <<n \div g, d \div g>>

IsNaN(a) == a = NaN
IsFinite(a) == a[2] > 0

\* a < b and a <= b as numpy orders floats; any comparison with NaN is false
Lt(a, b) ==
    /\ ~IsNaN(a) /\ ~IsNaN(b)
    /\ IF a[2] = 0 /\ b[2] = 0 THEN a[1] < b[1] ELSE a[1] * b[2] < b[1] * a[2]

Le(a, b) ==
    /\ ~IsNaN(a) /\ ~IsNaN(b)
    /\ IF a[2] = 0 /\ b[2] = 0 THEN a[1] <= b[1] ELSE a[1] * b[2] <= b[1] * a[2]

\* a + b: inf + (-inf) is NaN
Add(a, b) ==
    IF IsNaN(a) \/ IsNaN(b) THEN NaN
    ELSE IF IsFinite(a) /\ IsFinite(b) THEN Frac(a[1] * b[2] + b[1] * a[2], a[2] * b[2])
    ELSE IF IsFinite(a) THEN b
    ELSE IF IsFinite(b) THEN a
    ELSE IF a = b THEN a ELSE NaN

Half(a) == IF IsFinite(a) THEN Frac(a[1], 2 * a[2]) ELSE a

\* a / b as pandas divides two numeric columns: no exception on a zero
\* denominator; x/0 is +-inf for x # 0 and NaN for x = 0
Div(a, b) ==
    IF IsNaN(a) \/ IsNaN(b) THEN NaN
    ELSE IF ~IsFinite(b) THEN (IF IsFinite(a) THEN Num(0) ELSE NaN)
    ELSE IF b[1] = 0 THEN
        (IF a[1] > 0 THEN PosInf ELSE IF a[1] < 0 THEN NegInf ELSE NaN)
    ELSE IF ~IsFinite(a) THEN (IF b[1] > 0 THEN a ELSE <<-a[1], 0>>)
    ELSE IF b[1] > 0 THEN Frac(a[1] * b[2], a[2] * b[1])
    ELSE Frac(-(a[1] * b[2]), a[2] * (-b[1]))

---------------------------------------------------------------------------
(* pandas Series reductions; each skips the missing values *)

dropna(s) == SelectSeq(s, LAMBDA v : ~IsNaN(v))

RECURSIVE SumSeq(_)
SumSeq(s) == IF s = <<>> THEN Num(0) ELSE Add(Head(s), SumSeq(Tail(s)))

\* Series.sum(): the sum of the present values, 0 when there are none
sum(s) == SumSeq(dropna(s))

\* Series.median(): the middle of the sorted present values, the mean of the
\* two middle ones for an even count, NaN when there are none
median(s) ==
    LET v == SortSeq(dropna(s), Lt)
        n == Len(v)
    IN  IF n = 0 THEN NaN
        ELSE IF n % 2 = 1 THEN v[(n + 1) \div 2]
        ELSE Half(Add(v[n \div 2], v[n \div 2 + 1]))

\* Series.min() and Series.max(): NaN when there is no present value
min(s) ==
    LET v == dropna(s)
    IN  IF v = <<>> THEN NaN
        ELSE CHOOSE x \in {v[i] : i \in 1..Len(v)} : \A j \in 1..Len(v) : Le(x, v[j])

max(s) ==
    LET v == dropna(s)
    IN  IF v = <<>> THEN NaN
        ELSE CHOOSE x \in {v[i] : i \in 1..Len(v)} : \A j \in 1..Len(v) : Le(v[j], x)

---------------------------------------------------------------------------
(* scipy.stats.mannwhitneyu(x, y, method='exact'), two-sided *)

\* The scipy builds helper.py runs on differ on an empty sample: the older
\* ones raise ValueError, the newer ones warn and return NaN.
Builds == {"raises", "nan"}

\* The number of orderings of m and n values whose U statistic is k
RECURSIVE MwuCount(_, _, _)
MwuCount(m, n, k) ==
    IF k < 0 \/ m < 0 \/ n < 0 \/ k > m * n THEN 0
    ELSE IF k = 0 THEN 1
    ELSE MwuCount(m - 1, n, k - n) + MwuCount(m, n - 1, k)

RECURSIVE MwuCountFrom(_, _, _)
MwuCountFrom(m, n, k) ==
    IF k > m * n THEN 0 ELSE MwuCount(m, n, k) + MwuCountFrom(m, n, k + 1)

\* The survival function of U under the null hypothesis, P(U >= k): <<count, total>>
MwuSfStrict(m, n, k) == <<MwuCountFrom(m, n, k + 1), MwuCountFrom(m, n, 0)>>
MwuSf(m, n, k) == <<MwuCountFrom(m, n, k), MwuCountFrom(m, n, 0)>>

\* Twice the rank of v among the values xy, ties sharing the average rank
Rank2(v, xy) ==
    2 * Cardinality({i \in 1..Len(xy) : Lt(xy[i], v)})
      + Cardinality({i \in 1..Len(xy) : xy[i] = v}) + 1

RECURSIVE RankSum2(_, _)
RankSum2(x, xy) == IF x = <<>> THEN 0 ELSE Rank2(Head(x), xy) + RankSum2(Tail(x), xy)

\* U1 and U2, each doubled
U1x2(x, y) == RankSum2(x, x \o y) - Len(x) * (Len(x) + 1)
U2x2(x, y) == 2 * Len(x) * Len(y) - U1x2(x, y)

\* The p-value of samples with no missing value, neither of them empty
MwuGreater(x, y) ==
    LET sf == MwuSf(Len(x), Len(y), U1x2(x, y) \div 2)
    IN  Frac(sf[1], sf[2])

MwuTwoSided(x, y) ==
    LET u1 == U1x2(x, y)
        u2 == U2x2(x, y)
        u  == IF u1 >= u2 THEN u1 ELSE u2
        sf == MwuSf(Len(x), Len(y), u \div 2)
    IN  IF 2 * sf[1] >= sf[2] THEN Num(1) ELSE Frac(2 * sf[1], sf[2])

mannwhitneyu(x, y, bld) ==
    IF x = <<>> \/ y = <<>>
    THEN [raised |-> bld = "raises", pvalue |-> NaN]
    ELSE [raised |-> FALSE, pvalue |-> MwuTwoSided(x, y)]

---------------------------------------------------------------------------
(* DataFrames *)

Flag == "Closed 2012-2016"
Pct == "%"

NoFrame == [cols |-> {}, rows |-> <<>>]

Column(rows, c) == [i \in 1..Len(rows) |-> rows[i][c]]

\* df.groupby(Flag).get_group(key): the rows whose flag is key, in order
get_group(df, key) == SelectSeq(df.rows, LAMBDA r : r[Flag] = Num(key))

\* df[c] = values: the column is added, or overwritten
SetColumn(df, c, values) ==
    [cols |-> df.cols \cup {c},
     rows |-> [i \in 1..Len(df.rows) |->
                 [k \in df.cols \cup {c} |-> IF k = c THEN values[i] ELSE df.rows[i][k]]]]

Ratios(df, numer, denom) ==
    [i \in 1..Len(df.rows) |-> Div(df.rows[i][numer], df.rows[i][denom])]

\* The object prop_df names after "prop_df = df.copy()"
DfAlias(ref) == ref
DfCopy(ref) == "prop_df"

---------------------------------------------------------------------------
(* The report functions: what a call prints and raises *)

Line(tag, text, vals) == [tag |-> tag, text |-> text, vals |-> vals]
Raise(e, printed) == [out |-> printed, err |-> e]
Return(printed) == [out |-> printed, err |-> "none"]

GroupLine(tag, s) == Line(tag, <<>>, <<median(s), min(s), max(s)>>)

\* Lines 51-57 and 84-91: the six lines of a statistics report
StatsLines(title, total, open, closed, pval) ==
    << Line("header", title, <<>>),
       Line("underline", title, <<>>),
       Line("Total:", <<>>, <<total>>),
       GroupLine("Open:", open),
       GroupLine("Closed:", closed),
       Line("Mann-Whit:", <<>>, <<pval>>) >>

CountStatsPrintFirst(df, measure, bld) ==
    LET head == << Line("header", <<measure>>, <<>>), Line("underline", <<measure>>, <<>>) >>
    IN
    IF Flag \notin df.cols THEN Raise("KeyError", <<>>)
    ELSE IF get_group(df, 0) = <<>> \/ measure \notin df.cols \/ get_group(df, 1) = <<>>
    THEN Raise("KeyError", <<>>)
    ELSE LET open == Column(get_group(df, 0), measure)
             closed == Column(get_group(df, 1), measure)
             mw == mannwhitneyu(dropna(open), dropna(closed), bld)
         IN  IF mw.raised THEN Raise("ValueError", head)
             ELSE Return(StatsLines(<<measure>>, sum(Column(df.rows, measure)),
                                    open, closed, mw.pvalue))

count_stats(df, measure, bld) ==
    IF Flag \notin df.cols THEN Raise("KeyError", <<>>)              \* line 43
    ELSE IF get_group(df, 0) = <<>> THEN Raise("KeyError", <<>>)     \* line 44
    ELSE IF measure \notin df.cols THEN Raise("KeyError", <<>>)      \* line 44
    ELSE IF get_group(df, 1) = <<>> THEN Raise("KeyError", <<>>)     \* line 45
    ELSE LET open == Column(get_group(df, 0), measure)
             closed == Column(get_group(df, 1), measure)
             mw == mannwhitneyu(dropna(open), dropna(closed), bld)   \* line 48
         IN  IF mw.raised THEN Raise("ValueError", <<>>)
             ELSE Return(StatsLines(<<measure>>, sum(Column(df.rows, measure)),
                                    open, closed, mw.pvalue))

\* proportion_stats on the objects h: the objects it leaves, its output, its exception
proportion_stats(h, numer, denom, bld) ==
    LET ref == DfCopy("df")                                          \* line 74
        h1 == [h EXCEPT ![ref] = h["df"]]
        dropped(hh) == [hh EXCEPT !["prop_df"] = NoFrame]            \* the local goes at return
        fail(hh, e) == [frames |-> dropped(hh), out |-> <<>>, err |-> e]
    IN
    IF numer \notin h1[ref].cols \/ denom \notin h1[ref].cols        \* line 75
    THEN fail(h1, "KeyError")
    ELSE
    LET h2 == [h1 EXCEPT ![ref] = SetColumn(h1[ref], Pct, Ratios(h1[ref], numer, denom))]
        prop_df == h2[ref]
    IN
    IF Flag \notin prop_df.cols THEN fail(h2, "KeyError")            \* line 76
    ELSE IF get_group(prop_df, 0) = <<>> THEN fail(h2, "KeyError")   \* line 77
    ELSE IF get_group(prop_df, 1) = <<>> THEN fail(h2, "KeyError")   \* line 78
    ELSE LET open == Column(get_group(prop_df, 0), Pct)
             closed == Column(get_group(prop_df, 1), Pct)
             mw == mannwhitneyu(dropna(open), dropna(closed), bld)   \* line 81
         IN  IF mw.raised THEN fail(h2, "ValueError")
             ELSE [frames |-> dropped(h2),
                   out |-> StatsLines(<<"% ", numer>>, sum(Column(prop_df.rows, numer)),
                                      open, closed, mw.pvalue),
                   err |-> "none"]

\* two_by_two prints a line as soon as its sum is computed
two_by_two(df, ind1, ind2) ==
    IF Flag \notin df.cols THEN Raise("KeyError", <<>>)              \* line 105
    ELSE IF get_group(df, 0) = <<>> \/ get_group(df, 1) = <<>>       \* line 106
    THEN Raise("KeyError", <<>>)
    ELSE
    LET open == get_group(df, 0)
        closed == get_group(df, 1)
        l1 == Line("Closed:", <<ind1>>, <<sum(Column(closed, ind1))>>)
        l2 == Line("Closed:", <<ind2>>, <<sum(Column(closed, ind2))>>)
        l3 == Line("Open:", <<ind1>>, <<sum(Column(open, ind1))>>)
        l4 == Line("Open:", <<ind2>>, <<sum(Column(open, ind2))>>)
    IN  IF ind1 \notin df.cols THEN Raise("KeyError", <<>>)          \* line 110
        ELSE IF ind2 \notin df.cols THEN Raise("KeyError", <<l1>>)   \* line 111
        ELSE Return(<<l1, l2, l3, l4>>)

---------------------------------------------------------------------------
(* plot_medians *)

NoFig == [bars |-> <<>>, texts |-> <<>>, xticks |-> <<>>, file |-> <<>>]

\* Python's max of a list of numbers
PyMax(s) == CHOOSE x \in {s[i] : i \in 1..Len(s)} : \A j \in 1..Len(s) : Le(s[j], x)

\* Line 149: the p-values that are bolded and starred
SignificantOrEqual(pval) == Le(pval, Frac(5, 100))
Significant(pval) == Lt(pval, Frac(5, 100))

\* One ax.bar call with its ax.bar_label call: a bar per value, labelled with it
Bars(series, shift, vals, barwidth) ==
    [i \in 1..Len(vals) |->
        [series |-> series, x |-> Add(Num(i - 1), shift), height |-> vals[i],
         width |-> barwidth, label |-> vals[i]]]

\* One ax.text call of the loop of lines 148-155
PText(i, pval, ymax) ==
    [x |-> Num(i - 1), y |-> Frac(11 * ymax[1], 10 * ymax[2]), p |-> pval,
     star |-> Significant(pval),
     weight |-> IF Significant(pval) THEN "bold" ELSE "normal"]

plot_medians(labels, openvals, closedvals, pvals, barwidth, anno) ==
    LET shift == Frac(5 * barwidth[1], 8 * barwidth[2])
        obars == Bars("LDU Remained Open", <<-shift[1], shift[2]>>, openvals, barwidth)
        cbars == Bars("LDU Closed", shift, closedvals, barwidth)
    IN  IF openvals \o closedvals = <<>> THEN [fig |-> NoFig, err |-> "ValueError"]  \* line 145
        ELSE LET ymax == PyMax(openvals \o closedvals)
             IN  [fig |-> [bars |-> obars \o cbars,
                           texts |-> [i \in 1..Len(pvals) |-> PText(i, pvals[i], ymax)],
                           xticks |-> [i \in 1..Len(labels) |-> <<Num(i - 1), labels[i]>>],
                           file |-> <<"figs", "medians", anno, ".png">>],
                  err |-> "none"]

---------------------------------------------------------------------------
(* The inputs *)

Measures == {"A", "B"}
ColumnSets == {{Flag, "A", "B"}, {"A", "B"}, {Flag, "A"}}

\* 0 and 1 are the closure codes; 2 stands for any other value of the flag
FlagVals == {Num(0), Num(1), Num(2)}
AVals == {NaN, Num(-1), Num(1)}
BVals == {Num(0), Num(1)}

RowsOver(cols) ==
    {r \in [cols -> FlagVals \cup AVals \cup BVals] :
        /\ Flag \in cols => r[Flag] \in FlagVals
        /\ "A" \in cols => r["A"] \in AVals
        /\ "B" \in cols => r["B"] \in BVals}

\* A position for each record, to list the records of a dataset in one order
Code(v) == IF IsNaN(v) THEN 0 ELSE v[1] + 2
RowCode(r, cols) ==
    (IF Flag \in cols THEN 16 * Code(r[Flag]) ELSE 0)
      + (IF "A" \in cols THEN 4 * Code(r["A"]) ELSE 0)
      + (IF "B" \in cols THEN Code(r["B"]) ELSE 0)

\* The datasets of at most MaxRows records, each multiset of records in one
\* order: sum, median, min, max and the rank sums of the Mann-Whitney test do
\* not depend on the order of the records (SpecSamples has every order)
Datasets ==
    UNION {{[cols |-> c, rows |-> rs] :
              rs \in {q \in UNION {[1..n -> RowsOver(c)] : n \in 0..MaxRows} :
                        \A i \in 1..(Len(q) - 1) : RowCode(q[i], c) <= RowCode(q[i + 1], c)}} :
            c \in ColumnSets}

\* The samples of three pairwise-distinct values
Triples == {s \in [1..3 -> 1..MaxVal] : s[1] # s[2] /\ s[1] # s[3] /\ s[2] # s[3]}

\* The dataset whose Open records carry the values x and whose Closed records carry y
TwoSamples(x, y) ==
    [cols |-> {Flag, "A"},
     rows |-> [i \in 1..Len(x) |-> [k \in {Flag, "A"} |-> IF k = Flag THEN Num(0) ELSE Num(x[i])]]
              \o [i \in 1..Len(y) |-> [k \in {Flag, "A"} |-> IF k = Flag THEN Num(1) ELSE Num(y[i])]]]

BarVals == {Num(1), Num(2)}
PVals == {Num(0), Frac(49, 1000), Frac(5, 100), Frac(51, 1000), Num(1)}
LabelNames == {"Births"}
BarWidths == {Frac(25, 100)}
Annos == {"", "_pct"}

---------------------------------------------------------------------------
(* The state machine *)

NoCall == [fn |-> "none", args |-> <<>>]

Idle ==
    /\ build \in Builds
    /\ call = NoCall
    /\ out = <<>>
    /\ err = "none"
    /\ fig = NoFig
    /\ pending = NoCall

Init ==
    /\ \E d \in Datasets : frames = [df |-> d, prop_df |-> NoFrame]
    /\ Idle

InitSamples ==
    /\ \E x \in Triples, y \in Triples : frames = [df |-> TwoSamples(x, y), prop_df |-> NoFrame]
    /\ Idle

\* Parallel lists, as the docstring of plot_medians requires
PlotCalls ==
    UNION {{[fn |-> "plot_medians", args |-> <<labels, openvals, closedvals, pvals, barwidth, anno>>] :
              labels \in [1..n -> LabelNames], openvals \in [1..n -> BarVals],
              closedvals \in [1..n -> BarVals], pvals \in [1..n -> PVals],
              barwidth \in BarWidths, anno \in Annos} : n \in 0..MaxLabels}

InitPlot ==
    /\ frames = [df |-> NoFrame, prop_df |-> NoFrame]
    /\ build \in Builds
    /\ call = NoCall
    /\ out = <<>>
    /\ err = "none"
    /\ fig = NoFig
    /\ pending \in PlotCalls

CountStats(measure) ==
    \E r \in {count_stats(frames["df"], measure, build)} :
        /\ call' = [fn |-> "count_stats", args |-> <<measure>>]
        /\ out' = r.out
        /\ err' = r.err
        /\ UNCHANGED <<frames, build, fig, pending>>

ProportionStats(numer, denom) ==
    \E r \in {proportion_stats(frames, numer, denom, build)} :
        /\ call' = [fn |-> "proportion_stats", args |-> <<numer, denom>>]
        /\ frames' = r.frames
        /\ out' = r.out
        /\ err' = r.err
        /\ UNCHANGED <<build, fig, pending>>

TwoByTwo(ind1, ind2) ==
    \E r \in {two_by_two(frames["df"], ind1, ind2)} :
        /\ call' = [fn |-> "two_by_two", args |-> <<ind1, ind2>>]
        /\ out' = r.out
        /\ err' = r.err
        /\ UNCHANGED <<frames, build, fig, pending>>

PlotMedians ==
    /\ pending # NoCall
    /\ \E r \in {plot_medians(pending.args[1], pending.args[2], pending.args[3],
                               pending.args[4], pending.args[5], pending.args[6])} :
        /\ call' = pending
        /\ pending' = NoCall
        /\ fig' = r.fig
        /\ err' = r.err
        /\ out' = <<>>
        /\ UNCHANGED <<frames, build>>

Next ==
    \/ \E m \in Measures : CountStats(m)
    \/ \E n \in Measures, d \in Measures : n # d /\ ProportionStats(n, d)
    \/ \E i1 \in Measures, i2 \in Measures : i1 # i2 /\ TwoByTwo(i1, i2)

NextSamples == CountStats("A")

NextPlot == PlotMedians

Spec == Init /\ [][Next]_vars
SpecSamples == InitSamples /\ [][NextSamples]_vars
SpecPlot == InitPlot /\ [][NextPlot]_vars

---------------------------------------------------------------------------
(* Views of the state used by the properties *)

Dataset == frames["df"]
Reports == {"count_stats", "proportion_stats", "two_by_two"}
StatsReports == {"count_stats", "proportion_stats"}
Returned == err = "none"

\* The columns the last call names are columns of the dataset, the flag too
ColumnsPresent == Flag \in Dataset.cols /\ \A i \in 1..Len(call.args) : call.args[i] \in Dataset.cols

\* The values of the measure of the last statistics call in the group of flag key
GroupValues(key) ==
    IF call.fn = "count_stats"
    THEN Column(get_group(Dataset, key), call.args[1])
    ELSE LET rows == get_group(Dataset, key)
         IN  [i \in 1..Len(rows) |-> Div(rows[i][call.args[1]], rows[i][call.args[2]])]

HasInvalidFlag ==
    /\ Flag \in Dataset.cols
    /\ \E i \in 1..Len(Dataset.rows) : Dataset.rows[i][Flag] \notin {Num(0), Num(1)}

\* What the last statistics call prints and raises when made on the dataset d
StatsReportOn(d) ==
    IF call.fn = "count_stats"
    THEN count_stats(d, call.args[1], build)
    ELSE LET r == proportion_stats([df |-> d, prop_df |-> NoFrame], call.args[1], call.args[2], build)
         IN  [out |-> r.out, err |-> r.err]

\* The dataset with Open and Closed exchanged
Flipped(d) ==
    [cols |-> d.cols,
     rows |-> [i \in 1..Len(d.rows) |->
                 [k \in d.cols |->
                    IF k # Flag THEN d.rows[i][k]
                    ELSE IF d.rows[i][k] = Num(0) THEN Num(1)
                    ELSE IF d.rows[i][k] = Num(1) THEN Num(0) ELSE d.rows[i][k]]]]

\* The dataset with every zero of the column c made a missing value
ZeroAsMissing(d, c) ==
    SetColumn(d, c, [i \in 1..Len(d.rows) |->
                        IF d.rows[i][c] = Num(0) THEN NaN ELSE d.rows[i][c]])

Tags(lines) == [i \in 1..Len(lines) |-> lines[i].tag]
PValue == out[6].vals[1]

---------------------------------------------------------------------------
(* The claims *)

\* C1: on a dataset with a record whose closure flag is neither 0 nor 1, a
\* call of count_stats, proportion_stats or two_by_two reports an error.
C1_InvalidFlagIsAnError ==
    (call.fn \in Reports /\ HasInvalidFlag) => ~Returned

\* C2: for a measure column with no missing value, the Open sum plus the Closed
\* sum that two_by_two prints for it is the 'Total:' count_stats prints for it.
C2_GroupSumsAddUpToTotal ==
    (/\ call.fn = "two_by_two" /\ Returned
     /\ \A i \in 1..Len(Dataset.rows) : ~IsNaN(Dataset.rows[i][call.args[1]])
     /\ count_stats(Dataset, call.args[1], build).err = "none")
    => Add(out[3].vals[1], out[1].vals[1])
         = count_stats(Dataset, call.args[1], build).out[3].vals[1]

\* C3: when a group has no non-missing value of the requested measure,
\* count_stats and proportion_stats fail with an error and report nothing.
C3_EmptyGroupIsAnError ==
    (/\ call.fn \in StatsReports /\ ColumnsPresent
     /\ \E key \in {0, 1} : dropna(GroupValues(key)) = <<>>)
    => (~Returned /\ out = <<>>)

\* C4: proportion_stats does not fail on a zero denominator and reports what it
\* reports when the zero denominators are missing values.
C4_ZeroDenominatorIsMissing ==
    (call.fn = "proportion_stats" /\ ColumnsPresent)
    => LET r == StatsReportOn(ZeroAsMissing(Dataset, call.args[2]))
       IN  out = r.out /\ err = r.err

\* C5: for each group with a non-missing value, the median count_stats and
\* proportion_stats report is the median of the group's non-missing values
\* and lies between the minimum and the maximum reported beside it.
C5_MedianWithinMinMax ==
    (call.fn \in StatsReports /\ Returned)
    => \A key \in {0, 1} :
         dropna(GroupValues(key)) # <<>>
         => LET l == out[4 + key]
            IN  /\ l.vals[1] = median(dropna(GroupValues(key)))
                /\ Le(l.vals[2], l.vals[1])
                /\ Le(l.vals[1], l.vals[3])

\* C6: the Mann-Whitney p-value count_stats and proportion_stats report is the
\* one they report when every record's closure flag is flipped.
C6_PValueSymmetric ==
    (call.fn \in StatsReports /\ Returned)
    => /\ StatsReportOn(Flipped(Dataset)).err = "none"
       /\ PValue = StatsReportOn(Flipped(Dataset)).out[6].vals[1]

C6_Witness ==
    /\ call.fn \in StatsReports /\ Returned
    /\ Len(get_group(Dataset, 0)) # Len(get_group(Dataset, 1))
    /\ PValue = Frac(2, 3)

\* C7: for two samples of three pairwise-distinct values the p-value is at
\* least 0.1, and it is 0.1 when one sample lies below the other; for Open =
\* [1,2,3] and Closed = [4,5,6] the medians are 2 and 5 and the p-value is 0.1.
C7_ThreeByThree ==
    call.fn = "count_stats"
    => LET open == GroupValues(0)
           closed == GroupValues(1)
       IN  /\ Returned
           /\ Le(Frac(1, 10), PValue)
           /\ ((\A i, j \in 1..3 : Lt(open[i], closed[j])) \/ (\A i, j \in 1..3 : Lt(closed[j], open[i])))
              => PValue = Frac(1, 10)
           /\ (open = <<Num(1), Num(2), Num(3)>> /\ closed = <<Num(4), Num(5), Num(6)>>)
              => (out[4].vals[1] = Num(2) /\ out[5].vals[1] = Num(5) /\ PValue = Frac(1, 10))

C7_Witness ==
    /\ call.fn = "count_stats" /\ Returned
    /\ GroupValues(0) = <<Num(1), Num(2), Num(3)>>
    /\ GroupValues(1) = <<Num(4), Num(5), Num(6)>>
    /\ PValue = Frac(1, 10)

\* C8: no report call changes the caller's dataset, and a call repeated with the
\* same arguments prints and raises what it did before.
C8_DatasetUnchanged ==
    [][/\ frames'["df"] = frames["df"]
       /\ (call' = call => (out' = out /\ err' = err))]_vars

C8_Witness ==
    /\ call.fn = "proportion_stats" /\ Returned
    /\ Pct \notin Dataset.cols
    /\ Dataset.rows # <<>>

\* C9: plot_medians writes one annotation per p-value, at the x position of the
\* label of the same index, bold and starred exactly when the p-value is
\* below 0.05.
C9_PValueAnnotations ==
    (call.fn = "plot_medians" /\ Returned)
    => LET pvals == call.args[4]
       IN  /\ Len(fig.texts) = Len(pvals)
           /\ \A i \in 1..Len(pvals) :
                /\ fig.texts[i].p = pvals[i]
                /\ fig.texts[i].x = fig.xticks[i][1]
                /\ fig.texts[i].star <=> Lt(pvals[i], Frac(5, 100))
                /\ fig.texts[i].weight = (IF Lt(pvals[i], Frac(5, 100)) THEN "bold" ELSE "normal")

C9_Witness ==
    /\ call.fn = "plot_medians" /\ Returned
    /\ Len(fig.texts) = 2
    /\ fig.texts[1].p = Frac(5, 100) /\ fig.texts[1].weight = "normal" /\ ~fig.texts[1].star
    /\ fig.texts[2].p = Frac(49, 1000) /\ fig.texts[2].weight = "bold" /\ fig.texts[2].star

\* C10: a count_stats or proportion_stats call that fails has printed nothing,
\* and one that returns has printed the header, the underline and the
\* 'Total:', 'Open:', 'Closed:' and 'Mann-Whit:' lines, in that order.
C10_AllOrNothing ==
    call.fn \in StatsReports
    => IF Returned
       THEN Tags(out) = <<"header", "underline", "Total:", "Open:", "Closed:", "Mann-Whit:">>
       ELSE out = <<>>

C10_Witness ==
    /\ call.fn = "count_stats"
    /\ err = "ValueError"
    /\ out = <<>>

===========================================================================
